---- MODULE Spec2Model ----
(***************************************************************************)
(* Model of the method-1 KZG multiproof of poly-multiproof:                *)
(*   M1NoPrecomp   (src/src/method1/mod.rs)                                *)
(*   M1Precomp     (src/src/method1/precompute.rs)                         *)
(*   M1CyclPrecomp (src/src/m1_blst/cyclic_precomp.rs)                     *)
(* The scalar field Fr is the prime field of P elements.  G1, G2 and the   *)
(* pairing target group are cyclic of order P; a group element is written  *)
(* as its discrete logarithm, so that scalar multiplication is the product *)
(* mod P and pairing(a, b) is a * b mod P (bilinear, non-degenerate).      *)
(***************************************************************************)
EXTENDS Integers, Sequences, FiniteSets, TLC

\* ------------------------------------------------------------------ bounds
MaxCoeffs == 4      \* largest max_coeffs handed to new_from_scalar
MaxPts == 2         \* largest max_pts handed to new_from_scalar
MaxPolys == 3       \* most polynomials in one statement
MaxLen == 3         \* most coefficients of a polynomial of a statement
MaxSets == 2        \* most point sets handed to M1Precomp::from_inner

\* ------------------------------------------------------- the scalar field
P == 13
FrGen == 2
TwoAdicity == 2
G1Gen == 1
G2Gen == 2

Fr == 0..(P - 1)

RECURSIVE FPow(_, _)
FPow(a, n) == IF n = 0 THEN 1 ELSE (a * FPow(a, n - 1)) % P

FInv(a) == FPow(a, P - 2)

FNeg(a) == (P - a) % P

FSub(a, b) == (a + P - b) % P

Min(a, b) == IF a < b THEN a ELSE b

Max(a, b) == IF a < b THEN b ELSE a

\* --------------------------------------------- results of fallible calls
Ok(v) == [tag |-> "Ok", val |-> v]

Err(e) == [tag |-> "Err", err |-> e]

Panic(m) == [tag |-> "Panic", msg |-> m]

IsOk(r) == r.tag = "Ok"

IsErr(r) == r.tag = "Err"

IsPanic(r) == r.tag = "Panic"

\* ------------------------------------------------------------ polynomials
\* A polynomial is its coefficient vector, lowest degree first.
RECURSIVE SumSeq(_)
SumSeq(s) == IF s = << >> THEN 0 ELSE (Head(s) + SumSeq(Tail(s))) % P

RECURSIVE Trim(_)
Trim(p) == IF p = << >> THEN << >>
           ELSE IF p[Len(p)] = 0 THEN Trim(SubSeq(p, 1, Len(p) - 1))
           ELSE p

Coef(p, i) == IF i <= Len(p) THEN p[i] ELSE 0

PolyAdd(p, q) == [i \in 1..Max(Len(p), Len(q)) |-> (Coef(p, i) + Coef(q, i)) % P]

PolyScale(p, c) == [i \in 1..Len(p) |-> (p[i] * c) % P]

PolyEval(p, z) == SumSeq([i \in 1..Len(p) |-> (p[i] * FPow(z, i - 1)) % P])

\* p * (X - z)
MulLinear(p, z) ==
    [i \in 1..(Len(p) + 1) |->
        (Coef(<<0>> \o p, i) + FNeg((Coef(p, i) * z) % P)) % P]

RECURSIVE vanishing_polynomial(_)
vanishing_polynomial(points) ==
    IF points = << >> THEN <<1>>
    ELSE MulLinear(vanishing_polynomial(SubSeq(points, 1, Len(points) - 1)),
                   points[Len(points)])

gen_powers(x, n) == [i \in 1..n |-> FPow(x, i - 1)]

RECURSIVE LinCombo(_, _, _)
LinCombo(polys, gammas, n) ==
    IF n = 0 THEN << >>
    ELSE PolyAdd(LinCombo(polys, gammas, n - 1), PolyScale(polys[n], gammas[n]))

None == [tag |-> "None"]

Some(v) == [tag |-> "Some", val |-> v]

linear_combination(polys, gammas) ==
    LET n == Min(Len(polys), Len(gammas))
    IN IF n = 0 THEN None ELSE Some(LinCombo(polys, gammas, n))

\* Long division of f by d (d # 0): quotient and remainder.
RECURSIVE DivStep(_, _, _)
DivStep(q, r, d) ==
    LET rt == Trim(r)
        dt == Trim(d)
    IN IF Len(rt) < Len(dt) THEN <<q, rt>>
       ELSE LET k == Len(rt) - Len(dt)
                c == (rt[Len(rt)] * FInv(dt[Len(dt)])) % P
                sub == [i \in 1..Len(rt) |->
                          IF i > k THEN (c * dt[i - k]) % P ELSE 0]
                r2 == [i \in 1..(Len(rt) - 1) |-> FSub(rt[i], sub[i])]
                q2 == [i \in 1..Max(Len(q), k + 1) |->
                          IF i = k + 1 THEN c ELSE Coef(q, i)]
            IN DivStep(q2, r2, d)

poly_div_q_r(f, d) ==
    IF Trim(d) = << >> THEN Err([name |-> "DivisorIsZero"])
    ELSE Ok(DivStep(<< >>, f, d))

\* ------------------------------------------------------------------- MSM
curve_msm(bases, scalars) ==
    IF Len(scalars) > Len(bases)
    THEN Err([name |-> "TooManyScalars", n_coeffs |-> Len(scalars),
              expected_max |-> Len(bases)])
    ELSE Ok(SumSeq([i \in 1..Len(scalars) |-> (bases[i] * scalars[i]) % P]))

pairing(a, b) == (a * b) % P

\* ------------------------------------------------------------- transcript
\* A transcript is the sequence of messages appended so far; a message is a
\* label and the scalars encoded under it.
HashMod == 251
HashMul == 7

TranscriptNew(label) == << [label |-> label, data |-> << >>] >>

LabelCode(l) ==
    CASE l = "testing" -> 11
      [] l = "test" -> 13
      [] l = "open points" -> 17
      [] l = "open evals" -> 19
      [] l = "open gamma" -> 23
      [] OTHER -> 29

RECURSIVE HashData(_, _)
HashData(h, data) ==
    IF data = << >> THEN h
    ELSE HashData((h * HashMul + Head(data) + 1) % HashMod, Tail(data))

RECURSIVE HashMsgs(_, _)
HashMsgs(h, msgs) ==
    IF msgs = << >> THEN h
    ELSE HashMsgs(HashData((h * HashMul + LabelCode(Head(msgs).label)) % HashMod,
                           Head(msgs).data),
                  Tail(msgs))

RECURSIVE Concat(_)
Concat(ss) == IF ss = << >> THEN << >> ELSE Head(ss) \o Concat(Tail(ss))

\* Appends the points, then every evaluation vector in polynomial order.
transcribe_points_and_evals(transcript, points, evals) ==
    IF \E i \in 1..Len(evals) : Len(evals[i]) # Len(points)
    THEN [res |-> Err([name |-> "EvalsIncorrectSize"]), transcript |-> transcript]
    ELSE [res |-> Ok(TRUE),
          transcript |-> transcript
                \o << [label |-> "open points", data |-> points],
                      [label |-> "open evals", data |-> Concat(evals)] >>]

\* One field element from the transcript state, by reduction of a wider hash.
get_challenge(transcript, label) ==
    LET t2 == transcript \o << [label |-> label, data |-> << >>] >>
    IN [gamma |-> HashMsgs(1, t2) % P, transcript |-> t2]

\* ------------------------------------------------- Lagrange interpolation
RECURSIVE ProdSeq(_)
ProdSeq(s) == IF s = << >> THEN 1 ELSE (Head(s) * ProdSeq(Tail(s))) % P

Without(points, j) == SubSeq(points, 1, j - 1) \o SubSeq(points, j + 1, Len(points))

\* Per point: the numerator polynomial prod_{m # j} (X - z_m) and the inverse
\* of its value at z_j.
LagrangeInterpContext_new_from_points(points) ==
    IF points = << >> THEN Err([name |-> "NoPointsGiven"])
    ELSE Ok([points |-> points,
             numer |-> [j \in 1..Len(points) |->
                          vanishing_polynomial(Without(points, j))],
             weight |-> [j \in 1..Len(points) |->
                          FInv(ProdSeq([m \in 1..(Len(points) - 1) |->
                                FSub(points[j], Without(points, j)[m])]))]])

RECURSIVE SumPolys(_)
SumPolys(ps) == IF ps = << >> THEN << >> ELSE PolyAdd(Head(ps), SumPolys(Tail(ps)))

lagrange_interp_linear_combo(ctx, evals, gammas) ==
    IF Len(evals) # Len(gammas)
       \/ \E i \in 1..Len(evals) : Len(evals[i]) # Len(ctx.points)
    THEN Err([name |-> "EvalsIncorrectSize"])
    ELSE LET blended == [j \in 1..Len(ctx.points) |->
                           SumSeq([i \in 1..Len(evals) |->
                                     (gammas[i] * evals[i][j]) % P])]
         IN Ok(Trim(SumPolys([j \in 1..Len(ctx.points) |->
                    PolyScale(ctx.numer[j], (blended[j] * ctx.weight[j]) % P)])))

\* ------------------------------------------------------ evaluation domains
is_power_of_two(n) == n # 0 /\ \E k \in 0..n : n = 2 ^ k

Log2(n) == CHOOSE k \in 0..n : n = 2 ^ k

\* A radix-2 domain or one of its cosets: offset * group_gen^i, i < size.
Radix2_new(n) ==
    IF ~is_power_of_two(n) \/ Log2(n) > TwoAdicity THEN None
    ELSE Some([size |-> n, group_gen |-> FPow(FrGen, (P - 1) \div n), offset |-> 1])

DomElement(d, i) == (d.offset * FPow(d.group_gen, i)) % P

ev_points(d) == [i \in 1..d.size |-> DomElement(d, i - 1)]

\* The base domain and its num_splits cosets of the subgroup of size
\* base_size / num_splits; base index j lies in coset j % num_splits at
\* position j \div num_splits.
SplitEvalDomain_new(base_size, n_splits) ==
    LET b == Radix2_new(base_size)
    IN IF b = None \/ n_splits = 0 \/ n_splits > base_size
          \/ base_size % n_splits # 0
       THEN None
       ELSE Some([base |-> b.val,
                  n_splits |-> n_splits,
                  subgroups |-> [g \in 1..n_splits |->
                      [size |-> base_size \div n_splits,
                       group_gen |-> FPow(b.val.group_gen, n_splits),
                       offset |-> FPow(b.val.group_gen, g - 1)]]])

take_subgroup_indices(sd, gi, ev) ==
    [i \in 1..(Len(ev) \div sd.n_splits) |-> ev[gi + sd.n_splits * (i - 1) + 1]]

\* x^size - offset^size, as (index, coefficient) pairs
Dom_vanishing_polynomial(d) ==
    << <<0, FNeg(FPow(d.offset, d.size))>>, <<d.size, 1>> >>

fft(d, poly) == [i \in 1..d.size |-> PolyEval(poly, DomElement(d, i - 1))]

\* inverse DFT over the coset: c_k = size^-1 * offset^-k * sum_j v_j * gen^-(j k)
ifft(d, vals) ==
    [k \in 1..d.size |->
        (FInv(d.size % P) * FInv(FPow(d.offset, k - 1))
           * SumSeq([j \in 1..d.size |->
                 (Coef(vals, j) * FInv(FPow(d.group_gen, (j - 1) * (k - 1)))) % P])) % P]

\* Division by x^n - c using its sparse shape: q_i = f_(i+n) + c * q_(i+n).
RECURSIVE SparseQuot(_, _, _, _)
SparseQuot(f, n, c, i) ==
    IF i + n > Len(f) THEN 0
    ELSE (f[i + n] + c * SparseQuot(f, n, c, i + n)) % P

divide_by_vanishing_poly(f, d) ==
    LET c == FPow(d.offset, d.size)
    IN IF Len(f) < d.size THEN Some(<< << >>, f >>)
       ELSE Some(<< [i \in 1..(Len(f) - d.size) |-> SparseQuot(f, d.size, c, i)],
                    [i \in 1..d.size |->
                        (f[i] + c * SparseQuot(f, d.size, c, i)) % P] >>)

\* ------------------------------------------------------------ M1NoPrecomp
\* powers_of_g1 has max(max_coeffs, max_pts + 1) powers, powers_of_g2 has
\* max_pts + 1.
new_from_scalar(x, g1, g2, max_coeffs, max_pts) ==
    LET n_g2_powers == max_pts + 1
        x_powers == gen_powers(x, Max(max_coeffs, n_g2_powers))
    IN [powers_of_g1 |-> [i \in 1..Len(x_powers) |-> (x_powers[i] * g1) % P],
        powers_of_g2 |-> [i \in 1..n_g2_powers |-> (x_powers[i] * g2) % P]]

\* commit against the G2 powers instead of the G1 powers
commit_g2_bases(self, poly) == curve_msm(self.powers_of_g2, poly)

commit(self, poly) == curve_msm(self.powers_of_g1, poly)

\* open_with_vanishing_poly once gamma is read: the gamma powers, the batch
\* polynomial, its quotient by vp and the commitment to the quotient
\* treats a non-zero remainder of the division as a violated invariant
open_zero_remainder_only(self, gamma, polys, vp) ==
    LET gammas == gen_powers(gamma, Len(self.powers_of_g1))
        fsum == linear_combination(polys, gammas)
        qr == poly_div_q_r(fsum.val, vp)
    IN IF fsum = None THEN Err([name |-> "NoPolynomialsGiven"])
       ELSE IF ~IsOk(qr) THEN qr
       ELSE IF Trim(qr.val[2]) # << >> THEN Err([name |-> "InvariantViolation"])
       ELSE curve_msm(self.powers_of_g1, qr.val[1])

open_after_challenge(self, gamma, polys, vp) ==
    LET gammas == gen_powers(gamma, Len(self.powers_of_g1))
        fsum == linear_combination(polys, gammas)
        qr == poly_div_q_r(fsum.val, vp)
    IN IF fsum = None THEN Err([name |-> "NoPolynomialsGiven"])
       ELSE IF ~IsOk(qr) THEN qr
       ELSE curve_msm(self.powers_of_g1, qr.val[1])

open_with_vanishing_poly(self, transcript, evals, polys, points, vp) ==
    LET t1 == transcribe_points_and_evals(transcript, points, evals)
        ch == get_challenge(t1.transcript, "open gamma")
    IN IF ~IsOk(t1.res) THEN [res |-> t1.res, transcript |-> t1.transcript]
       ELSE [res |-> open_after_challenge(self, ch.gamma, polys, vp),
             transcript |-> ch.transcript]

\* reports a failed pairing check as an error
verify_err_on_mismatch(self, transcript, commits, points, evals, proof, lag_ctx, g2_zeros) ==
    LET t1 == transcribe_points_and_evals(transcript, points, evals)
        ch == get_challenge(t1.transcript, "open gamma")
        gammas == gen_powers(ch.gamma, Len(evals))
        gamma_ris == lagrange_interp_linear_combo(lag_ctx, evals, gammas)
        gamma_ris_pt == curve_msm(self.powers_of_g1, gamma_ris.val)
        gamma_cm_pt == curve_msm(commits, gammas)
        g2 == self.powers_of_g2[1]
    IN IF ~IsOk(t1.res) THEN [res |-> t1.res, transcript |-> t1.transcript]
       ELSE IF ~IsOk(gamma_ris) THEN [res |-> gamma_ris, transcript |-> ch.transcript]
       ELSE IF ~IsOk(gamma_ris_pt) THEN [res |-> gamma_ris_pt, transcript |-> ch.transcript]
       ELSE IF ~IsOk(gamma_cm_pt) THEN [res |-> gamma_cm_pt, transcript |-> ch.transcript]
       ELSE IF pairing(FSub(gamma_cm_pt.val, gamma_ris_pt.val), g2) = pairing(proof, g2_zeros)
            THEN [res |-> Ok(TRUE), transcript |-> ch.transcript]
       ELSE [res |-> Err([name |-> "InvalidProof"]), transcript |-> ch.transcript]

verify_with_lag_ctx_g2_zeros(self, transcript, commits, points, evals, proof, lag_ctx, g2_zeros) ==
    LET t1 == transcribe_points_and_evals(transcript, points, evals)
        ch == get_challenge(t1.transcript, "open gamma")
        gammas == gen_powers(ch.gamma, Len(evals))
        gamma_ris == lagrange_interp_linear_combo(lag_ctx, evals, gammas)
        gamma_ris_pt == curve_msm(self.powers_of_g1, gamma_ris.val)
        gamma_cm_pt == curve_msm(commits, gammas)
        g2 == self.powers_of_g2[1]
    IN IF ~IsOk(t1.res) THEN [res |-> t1.res, transcript |-> t1.transcript]
       ELSE IF ~IsOk(gamma_ris) THEN [res |-> gamma_ris, transcript |-> ch.transcript]
       ELSE IF ~IsOk(gamma_ris_pt) THEN [res |-> gamma_ris_pt, transcript |-> ch.transcript]
       ELSE IF ~IsOk(gamma_cm_pt) THEN [res |-> gamma_cm_pt, transcript |-> ch.transcript]
       ELSE [res |-> Ok(pairing(FSub(gamma_cm_pt.val, gamma_ris_pt.val), g2)
                          = pairing(proof, g2_zeros)),
             transcript |-> ch.transcript]

NoPrecomp_open(self, transcript, evals, polys, points) ==
    open_with_vanishing_poly(self, transcript, evals, polys, points,
                             vanishing_polynomial(points))

NoPrecomp_verify(self, transcript, commits, points, evals, proof) ==
    LET vp == vanishing_polynomial(points)
        g2_zeros == curve_msm(self.powers_of_g2, vp)
        lag_ctx == LagrangeInterpContext_new_from_points(points)
    IN IF ~IsOk(g2_zeros) THEN [res |-> g2_zeros, transcript |-> transcript]
       ELSE IF ~IsOk(lag_ctx) THEN [res |-> lag_ctx, transcript |-> transcript]
       ELSE verify_with_lag_ctx_g2_zeros(self, transcript, commits, points, evals,
                                         proof, lag_ctx.val, g2_zeros.val)

\* -------------------------------------------------------------- M1Precomp
\* The first error of a sequence of results, or Ok of the values.
CollectResults(rs) ==
    IF \E i \in 1..Len(rs) : ~IsOk(rs[i])
    THEN rs[CHOOSE i \in 1..Len(rs) :
                ~IsOk(rs[i]) /\ \A j \in 1..(i - 1) : IsOk(rs[j])]
    ELSE Ok([i \in 1..Len(rs) |-> rs[i].val])

M1Precomp_from_inner(inner, point_sets) ==
    LET vanishing_polys == [i \in 1..Len(point_sets) |->
                               vanishing_polynomial(point_sets[i])]
        g2_zeros == CollectResults([i \in 1..Len(point_sets) |->
                        curve_msm(inner.powers_of_g2, vanishing_polys[i])])
        lagrange_ctxs == CollectResults([i \in 1..Len(point_sets) |->
                        LagrangeInterpContext_new_from_points(point_sets[i])])
    IN IF ~IsOk(g2_zeros) THEN g2_zeros
       ELSE IF ~IsOk(lagrange_ctxs) THEN lagrange_ctxs
       ELSE Ok([inner |-> inner,
                point_sets |-> point_sets,
                vanishing_polys |-> vanishing_polys,
                g2_zeros |-> g2_zeros.val,
                lagrange_ctxs |-> lagrange_ctxs.val])

M1Precomp_commit(self, poly) == commit(self.inner, poly)

\* point_set_index counts from 0; indexing past the end of a Vec panics.
M1Precomp_open(self, transcript, evals, polys, point_set_index) ==
    IF point_set_index >= Len(self.point_sets)
    THEN [res |-> Panic("index out of bounds"), transcript |-> transcript]
    ELSE open_with_vanishing_poly(self.inner, transcript, evals, polys,
                                  self.point_sets[point_set_index + 1],
                                  self.vanishing_polys[point_set_index + 1])

M1Precomp_verify(self, transcript, commits, point_set_index, evals, proof) ==
    IF point_set_index >= Len(self.point_sets)
    THEN [res |-> Panic("index out of bounds"), transcript |-> transcript]
    ELSE verify_with_lag_ctx_g2_zeros(self.inner, transcript, commits,
                                      self.point_sets[point_set_index + 1],
                                      evals, proof,
                                      self.lagrange_ctxs[point_set_index + 1],
                                      self.g2_zeros[point_set_index + 1])

\* ---------------------------------------------------------- M1CyclPrecomp
\* G2 commitment of a sparse polynomial; a coefficient past the G2 powers is
\* an error.
SparseG2Commit(inner, coeffs) ==
    IF \E k \in 1..Len(coeffs) : coeffs[k][1] >= Len(inner.powers_of_g2)
    THEN LET k == CHOOSE k \in 1..Len(coeffs) :
                     /\ coeffs[k][1] >= Len(inner.powers_of_g2)
                     /\ \A j \in 1..(k - 1) : coeffs[j][1] < Len(inner.powers_of_g2)
         IN Err([name |-> "TooManyScalars",
                 n_coeffs |-> Len(inner.powers_of_g1),
                 expected_max |-> coeffs[k][1] + 1])
    ELSE Ok(SumSeq([k \in 1..Len(coeffs) |->
                (inner.powers_of_g2[coeffs[k][1] + 1] * coeffs[k][2]) % P]))

M1CyclPrecomp_from_inner(inner, base_size, num_point_sets) ==
    IF ~is_power_of_two(base_size) \/ ~is_power_of_two(num_point_sets)
    THEN Panic("not yet implemented")
    ELSE IF Len(inner.powers_of_g1) < base_size
    THEN Err([name |-> "DomainConstructionFailed", size |-> base_size])
    ELSE LET split_domain == SplitEvalDomain_new(base_size, num_point_sets)
             point_set_groups == split_domain.val.subgroups
             g2_zeros == CollectResults([g \in 1..Len(point_set_groups) |->
                 SparseG2Commit(inner, Dom_vanishing_polynomial(point_set_groups[g]))])
         IN IF split_domain = None
            THEN Err([name |-> "DomainConstructionFailed",
                      size |-> Len(inner.powers_of_g1)])
            ELSE IF ~IsOk(g2_zeros) THEN g2_zeros
            ELSE Ok([inner |-> inner,
                     base_size |-> base_size,
                     split_domain |-> split_domain.val,
                     point_set_groups |-> point_set_groups,
                     num_point_sets |-> num_point_sets,
                     g2_zeros |-> g2_zeros.val])

M1CyclPrecomp_commit(self, poly) == commit(self.inner, poly)

check_opening_sizes(evals, polys, n_points) ==
    IF Len(evals) # Len(polys) THEN Err([name |-> "EvalsAndPolysDifferentSizes"])
    ELSE IF \E i \in 1..Len(evals) : Len(evals[i]) # n_points
    THEN Err([name |-> "EvalsIncorrectSize"])
    ELSE Ok(TRUE)

check_verify_sizes(commits, evals, n_points) ==
    IF Len(evals) # Len(commits) THEN Err([name |-> "EvalsAndCommitsDifferentSizes"])
    ELSE IF \E i \in 1..Len(evals) : Len(evals[i]) # n_points
    THEN Err([name |-> "EvalsIncorrectSize"])
    ELSE Ok(TRUE)

\* M1CyclPrecomp::open before it transcribes: the size check and the lookup
\* of the coset
M1CyclPrecomp_open_subgroup(self, evals, polys, point_set_index) ==
    LET sz == check_opening_sizes(evals, polys, self.base_size \div self.num_point_sets)
    IN IF ~IsOk(sz) THEN sz
       ELSE IF point_set_index >= Len(self.point_set_groups)
            THEN Err([name |-> "NoPointsGiven"])
       ELSE Ok(self.point_set_groups[point_set_index + 1])

\* M1CyclPrecomp::open once gamma is read
M1CyclPrecomp_open_after_challenge(self, gamma, polys, subgroup) ==
    LET gammas == gen_powers(gamma, Len(self.inner.powers_of_g1))
        fsum == linear_combination(polys, gammas)
        qr == divide_by_vanishing_poly(fsum.val, subgroup)
    IN IF fsum = None THEN Err([name |-> "NoPolynomialsGiven"])
       ELSE IF qr = None THEN Panic("This always succeeds")
       ELSE curve_msm(self.inner.powers_of_g1, qr.val[1])

M1CyclPrecomp_open(self, transcript, evals, polys, point_set_index) ==
    LET sg == M1CyclPrecomp_open_subgroup(self, evals, polys, point_set_index)
        t1 == transcribe_points_and_evals(transcript, ev_points(sg.val), evals)
        ch == get_challenge(t1.transcript, "open gamma")
    IN IF ~IsOk(sg) THEN [res |-> sg, transcript |-> transcript]
       ELSE IF ~IsOk(t1.res) THEN [res |-> t1.res, transcript |-> t1.transcript]
       ELSE [res |-> M1CyclPrecomp_open_after_challenge(self, ch.gamma, polys, sg.val),
             transcript |-> ch.transcript]

\* verify against the G2 zero commitment of coset 0 whatever the index
M1CyclPrecomp_verify_first_zero(self, transcript, commits, point_set_index, evals, proof) ==
    LET sz == check_verify_sizes(commits, evals, self.base_size \div self.num_point_sets)
        subgroup == self.point_set_groups[point_set_index + 1]
        points == ev_points(subgroup)
        t1 == transcribe_points_and_evals(transcript, points, evals)
        ch == get_challenge(t1.transcript, "open gamma")
        gammas == gen_powers(ch.gamma, Len(evals))
        lc == linear_combination(evals, gammas)
        gamma_ris == ifft(subgroup, lc.val)
        gamma_ris_pt == curve_msm(self.inner.powers_of_g1, gamma_ris)
        gamma_cm_pt == curve_msm(commits, gammas)
        g2 == self.inner.powers_of_g2[1]
        rhsg2 == self.g2_zeros[1]
    IN IF ~IsOk(sz) THEN [res |-> sz, transcript |-> transcript]
       ELSE IF point_set_index >= Len(self.point_set_groups)
            THEN [res |-> Err([name |-> "NoPointsGiven"]), transcript |-> transcript]
       ELSE IF ~IsOk(t1.res) THEN [res |-> t1.res, transcript |-> t1.transcript]
       ELSE IF lc = None THEN [res |-> Panic("TODO"), transcript |-> ch.transcript]
       ELSE IF ~IsOk(gamma_ris_pt) THEN [res |-> gamma_ris_pt, transcript |-> ch.transcript]
       ELSE IF ~IsOk(gamma_cm_pt) THEN [res |-> gamma_cm_pt, transcript |-> ch.transcript]
       ELSE [res |-> Ok(pairing(FSub(gamma_cm_pt.val, gamma_ris_pt.val), g2)
                          = pairing(proof, rhsg2)),
             transcript |-> ch.transcript]

M1CyclPrecomp_verify(self, transcript, commits, point_set_index, evals, proof) ==
    LET sz == check_verify_sizes(commits, evals, self.base_size \div self.num_point_sets)
        subgroup == self.point_set_groups[point_set_index + 1]
        points == ev_points(subgroup)
        t1 == transcribe_points_and_evals(transcript, points, evals)
        ch == get_challenge(t1.transcript, "open gamma")
        gammas == gen_powers(ch.gamma, Len(evals))
        lc == linear_combination(evals, gammas)
        gamma_ris == ifft(subgroup, lc.val)
        gamma_ris_pt == curve_msm(self.inner.powers_of_g1, gamma_ris)
        gamma_cm_pt == curve_msm(commits, gammas)
        g2 == self.inner.powers_of_g2[1]
        rhsg2 == self.g2_zeros[point_set_index + 1]
    IN IF ~IsOk(sz) THEN [res |-> sz, transcript |-> transcript]
       ELSE IF point_set_index >= Len(self.point_set_groups)
            THEN [res |-> Err([name |-> "NoPointsGiven"]), transcript |-> transcript]
       ELSE IF ~IsOk(t1.res) THEN [res |-> t1.res, transcript |-> t1.transcript]
       ELSE IF lc = None THEN [res |-> Panic("TODO"), transcript |-> ch.transcript]
       ELSE IF ~IsOk(gamma_ris_pt) THEN [res |-> gamma_ris_pt, transcript |-> ch.transcript]
       ELSE IF ~IsOk(gamma_cm_pt) THEN [res |-> gamma_cm_pt, transcript |-> ch.transcript]
       ELSE [res |-> Ok(pairing(FSub(gamma_cm_pt.val, gamma_ris_pt.val), g2)
                          = pairing(proof, rhsg2)),
             transcript |-> ch.transcript]

\* ---------------------------------------------------------------- inputs
Secrets == {2, 3}

Coefs == {0, 1}

SeqsUpTo(S, lo, hi) == UNION {[1..n -> S] : n \in lo..hi}

\* the polynomials with n coefficients of a statement: X^(n-1) + b
PolyPool(n) ==
    {[i \in 1..n |-> IF i = n THEN 1 ELSE IF i = 1 THEN b ELSE 0] : b \in Coefs}

\* as in the tests, the polynomials of a statement have the same number of
\* coefficients
PolyLists == UNION {SeqsUpTo(PolyPool(n), 1, MaxPolys) : n \in 1..MaxLen}

PointVals == {0, 1, 2}

\* ordered point sets of distinct points
PointSeqs(hi) ==
    {ps \in SeqsUpTo(PointVals, 1, hi) :
        \A i, j \in 1..Len(ps) : i < j => ps[i] < ps[j]}

\* collections of disjoint point sets
PointSetLists ==
    {pss \in SeqsUpTo(PointSeqs(MaxPts), 1, MaxSets) :
        \A i, j \in 1..Len(pss) : i < j => pss[i][Len(pss[i])] < pss[j][1]}

EvalsOf(polys, points) ==
    [i \in 1..Len(polys) |-> [j \in 1..Len(points) |-> PolyEval(polys[i], points[j])]]

\* ----------------------------------------------------------------- state
VARIABLES
    inner,      \* the M1NoPrecomp (the SRS)
    obj,        \* the variant in use and the result of its construction
    pc,         \* "new", "built", "committed", "opened", "verified"
    stmt,       \* the statement of the last open / verify
    out,        \* the result of the last commit / open / verify
    calls       \* the open / verify calls in progress, each with its transcript

vars == <<inner, obj, pc, stmt, out, calls>>

NoStmt == [polys |-> << >>, evals |-> << >>, commits |-> << >>, points |-> << >>,
           index |-> 0, proof |-> 0, mutation |-> "none",
           orig |-> [evals |-> << >>, commits |-> << >>, points |-> << >>,
                     index |-> 0, proof |-> 0]]

NoCalls == << >>

NoObj == [kind |-> "base", point_sets |-> << >>, base_size |-> 0,
          num_point_sets |-> 0, res |-> None]

Init ==
    /\ \E x \in Secrets, max_coeffs \in 1..MaxCoeffs, max_pts \in 0..MaxPts :
          inner = new_from_scalar(x, G1Gen, G2Gen, max_coeffs, max_pts)
    /\ obj = NoObj
    /\ pc = "new"
    /\ stmt = NoStmt
    /\ out = None
    /\ calls = NoCalls

\* ---------------------------------------------------------- construction
Build_M1Precomp ==
    /\ pc = "new"
    /\ \E point_sets \in PointSetLists :
          obj' = [kind |-> "pre", point_sets |-> point_sets, base_size |-> 0,
                  num_point_sets |-> 0,
                  res |-> M1Precomp_from_inner(inner, point_sets)]
    /\ pc' = "built"
    /\ UNCHANGED <<inner, stmt, out, calls>>

Build_M1CyclPrecomp ==
    /\ pc = "new"
    /\ \E base_size \in 0..MaxCoeffs, num_point_sets \in 0..MaxCoeffs :
          obj' = [kind |-> "cyc", point_sets |-> << >>, base_size |-> base_size,
                  num_point_sets |-> num_point_sets,
                  res |-> M1CyclPrecomp_from_inner(inner, base_size, num_point_sets)]
    /\ pc' = "built"
    /\ UNCHANGED <<inner, stmt, out, calls>>

Usable == (pc = "new" /\ obj.kind = "base") \/ (pc = "built" /\ IsOk(obj.res))

\* ---------------------------------------------------------------- commit
CommitOf(o, coeffs) ==
    CASE o.kind = "base" -> commit(inner, coeffs)
      [] o.kind = "pre" -> M1Precomp_commit(o.res.val, coeffs)
      [] o.kind = "cyc" -> M1CyclPrecomp_commit(o.res.val, coeffs)

Commit ==
    /\ Usable
    /\ \E coeffs \in SeqsUpTo(Coefs, 0, MaxCoeffs + 1) :
          /\ out' = CommitOf(obj, coeffs)
          /\ stmt' = [NoStmt EXCEPT !.polys = <<coeffs>>]
    /\ pc' = "committed"
    /\ UNCHANGED <<inner, obj, calls>>

\* ------------------------------------------------------------------ open
NumSets(o) ==
    CASE o.kind = "pre" -> Len(o.res.val.point_sets)
      [] o.kind = "cyc" -> Len(o.res.val.point_set_groups)
      [] OTHER -> 0

\* the points of point set i of a precomputed variant (those of set 0 when i
\* is no index of a point set)
PointsAt(o, i) ==
    LET k == IF i < NumSets(o) THEN i + 1 ELSE 1
    IN CASE o.kind = "pre" -> o.res.val.point_sets[k]
         [] o.kind = "cyc" -> ev_points(o.res.val.point_set_groups[k])

\* the evaluations handed to a precomputed variant for point set i: for the
\* coset variant the sub-vector of the evaluations over the base domain
EvalsAt(o, polys, i) ==
    LET k == IF i < NumSets(o) THEN i ELSE 0
    IN CASE o.kind = "pre" -> EvalsOf(polys, PointsAt(o, i))
         [] o.kind = "cyc" ->
              [p \in 1..Len(polys) |->
                  take_subgroup_indices(o.res.val.split_domain, k,
                      fft(o.res.val.split_domain.base, polys[p]))]

OpenOf(o, transcript, evals, polys, points, index) ==
    CASE o.kind = "base" -> NoPrecomp_open(inner, transcript, evals, polys, points)
      [] o.kind = "pre" -> M1Precomp_open(o.res.val, transcript, evals, polys, index)
      [] o.kind = "cyc" -> M1CyclPrecomp_open(o.res.val, transcript, evals, polys, index)

VerifyOf(o, transcript, commits, points, index, evals, proof) ==
    CASE o.kind = "base" ->
            NoPrecomp_verify(inner, transcript, commits, points, evals, proof)
      [] o.kind = "pre" ->
            M1Precomp_verify(o.res.val, transcript, commits, index, evals, proof)
      [] o.kind = "cyc" ->
            M1CyclPrecomp_verify(o.res.val, transcript, commits, index, evals, proof)

OpenWith(polys, evals, points, index) ==
    LET commits == [i \in 1..Len(polys) |-> CommitOf(obj, polys[i]).val]
        r == OpenOf(obj, TranscriptNew("testing"), evals, polys, points, index).res
        pf == IF IsOk(r) THEN r.val ELSE 0
    IN /\ stmt' = [polys |-> polys, evals |-> evals, commits |-> commits,
                   points |-> points, index |-> index, proof |-> pf,
                   mutation |-> "none",
                   orig |-> [evals |-> evals, commits |-> commits,
                             points |-> points, index |-> index, proof |-> pf]]
       /\ out' = r

Open ==
    /\ Usable
    /\ \E polys \in PolyLists :
          /\ \A i \in 1..Len(polys) : Len(polys[i]) <= Len(inner.powers_of_g1)
          /\ IF obj.kind = "base"
             THEN \E points \in PointSeqs(Len(inner.powers_of_g2) - 1) :
                     OpenWith(polys, EvalsOf(polys, points), points, 0)
             ELSE \E index \in 0..NumSets(obj) :
                     OpenWith(polys, EvalsAt(obj, polys, index),
                              PointsAt(obj, index), index)
    /\ pc' = "opened"
    /\ UNCHANGED <<inner, obj, calls>>

\* ---------------------------------------------------------------- verify
Verify ==
    /\ pc = "opened"
    /\ IsOk(out)
    /\ out' = VerifyOf(obj, TranscriptNew("testing"), stmt.commits, stmt.points,
                       stmt.index, stmt.evals, stmt.proof).res
    /\ pc' = "verified"
    /\ UNCHANGED <<inner, obj, stmt, calls>>

\* verify on the opened statement with one evaluation, one commitment, one
\* point, the proof or the point-set index changed
Mutated(kind, i, j) ==
    CASE kind = "eval" ->
            [stmt EXCEPT !.mutation = kind, !.evals[i][j] = (@ + 1) % P]
      [] kind = "commit" ->
            [stmt EXCEPT !.mutation = kind, !.commits[i] = (@ + 1) % P]
      [] kind = "point" ->
            [stmt EXCEPT !.mutation = kind, !.points[j] = (@ + 1) % P]
      [] kind = "proof" ->
            [stmt EXCEPT !.mutation = kind, !.proof = (@ + 1) % P]
      [] kind = "index" ->
            [stmt EXCEPT !.mutation = kind, !.index = (@ + 1) % (NumSets(obj) + 1)]

MutationOk(kind, i, j) ==
    CASE kind = "eval" -> TRUE
      [] kind = "commit" -> j = 1
      [] kind = "point" ->
            /\ i = 1
            /\ obj.kind = "base"
            /\ \A m \in 1..Len(stmt.points) : stmt.points[m] # (stmt.points[j] + 1) % P
      [] kind = "proof" -> i = 1 /\ j = 1
      [] kind = "index" -> i = 1 /\ j = 1 /\ obj.kind # "base"

VerifyMutated ==
    /\ pc = "opened"
    /\ IsOk(out)
    /\ Len(stmt.polys) < MaxPolys
    /\ \E kind \in {"eval", "commit", "point", "proof", "index"},
          i \in 1..Len(stmt.polys), j \in 1..Len(stmt.points) :
          /\ MutationOk(kind, i, j)
          /\ stmt' = Mutated(kind, i, j)
          /\ out' = VerifyOf(obj, TranscriptNew("testing"), stmt'.commits,
                             stmt'.points, stmt'.index, stmt'.evals, stmt'.proof).res
    /\ pc' = "verified"
    /\ UNCHANGED <<inner, obj, calls>>

Next ==
    \/ Build_M1Precomp
    \/ Build_M1CyclPrecomp
    \/ Commit
    \/ Open
    \/ Verify
    \/ VerifyMutated

Spec == Init /\ [][Next]_vars

\* ------------------------------------------------------ concurrent calls
\* Two callers run open with the same arguments, each on a transcript of its
\* own (open takes &self and &mut Transcript); a third call, a verify of the
\* same statement on another transcript, runs in between.  A call reads and
\* writes its transcript in three steps: it appends the points and the
\* evaluations, it reads the challenge, it computes the proof.
Callers == {"a", "b"}

InitCalls ==
    /\ \E x \in Secrets :
          inner = new_from_scalar(x, G1Gen, G2Gen, MaxCoeffs, MaxPts)
    /\ obj = NoObj
    /\ pc = "new"
    /\ stmt = NoStmt
    /\ out = None
    /\ calls = NoCalls

NewCall(label) ==
    [pc |-> "start", transcript |-> TranscriptNew(label), gamma |-> 0, res |-> None]

StartWith(polys, evals, points, index) ==
    /\ stmt' = [NoStmt EXCEPT !.polys = polys, !.evals = evals, !.points = points,
                              !.index = index,
                              !.commits = [i \in 1..Len(polys) |->
                                              CommitOf(obj, polys[i]).val]]
    /\ calls' = [c \in Callers \cup {"other"} |->
                    IF c \in Callers THEN NewCall("testing") ELSE NewCall("test")]

StartCalls ==
    /\ Usable
    /\ \E polys \in PolyLists :
          IF obj.kind = "base"
          THEN \E points \in PointSeqs(Len(inner.powers_of_g2) - 1) :
                  StartWith(polys, EvalsOf(polys, points), points, 0)
          ELSE \E index \in 0..NumSets(obj) :
                  StartWith(polys, EvalsAt(obj, polys, index),
                            PointsAt(obj, index), index)
    /\ pc' = "calls"
    /\ UNCHANGED <<inner, obj, out>>

\* every call works on the transcript of the first caller
TranscriptOf_shared(c) == calls["a"].transcript

\* the transcript a call works on: the one it was handed
TranscriptOf(c) == calls[c].transcript

\* what open does before it touches the transcript: the points it opens at
OpenPoints(o, evals, polys, points, index) ==
    CASE o.kind = "base" -> Ok(points)
      [] o.kind = "pre" ->
            IF index >= Len(o.res.val.point_sets)
            THEN Panic("index out of bounds")
            ELSE Ok(o.res.val.point_sets[index + 1])
      [] o.kind = "cyc" ->
            LET sg == M1CyclPrecomp_open_subgroup(o.res.val, evals, polys, index)
            IN IF IsOk(sg) THEN Ok(ev_points(sg.val)) ELSE sg

\* what open does once it has read gamma
OpenAfterChallenge(o, gamma, polys, points, index) ==
    CASE o.kind = "base" ->
            open_after_challenge(inner, gamma, polys, vanishing_polynomial(points))
      [] o.kind = "pre" ->
            open_after_challenge(o.res.val.inner, gamma, polys,
                                 o.res.val.vanishing_polys[index + 1])
      [] o.kind = "cyc" ->
            M1CyclPrecomp_open_after_challenge(o.res.val, gamma, polys,
                                               o.res.val.point_set_groups[index + 1])

CallTranscribe(c) ==
    /\ pc = "calls"
    /\ calls[c].pc = "start"
    /\ LET pts == OpenPoints(obj, stmt.evals, stmt.polys, stmt.points, stmt.index)
           t1 == transcribe_points_and_evals(TranscriptOf(c), pts.val, stmt.evals)
       IN calls' = [calls EXCEPT ![c] =
                      IF ~IsOk(pts) THEN [@ EXCEPT !.pc = "done", !.res = pts]
                      ELSE IF ~IsOk(t1.res)
                           THEN [@ EXCEPT !.pc = "done", !.res = t1.res,
                                          !.transcript = t1.transcript]
                      ELSE [@ EXCEPT !.pc = "transcribed",
                                     !.transcript = t1.transcript]]
    /\ UNCHANGED <<inner, obj, pc, stmt, out>>

CallChallenge(c) ==
    /\ pc = "calls"
    /\ calls[c].pc = "transcribed"
    /\ LET ch == get_challenge(TranscriptOf(c), "open gamma")
       IN calls' = [calls EXCEPT ![c] = [@ EXCEPT !.pc = "challenged",
                                                 !.gamma = ch.gamma,
                                                 !.transcript = ch.transcript]]
    /\ UNCHANGED <<inner, obj, pc, stmt, out>>

CallFinish(c) ==
    /\ pc = "calls"
    /\ calls[c].pc = "challenged"
    /\ calls' = [calls EXCEPT ![c] =
                    [@ EXCEPT !.pc = "done",
                              !.res = OpenAfterChallenge(obj, calls[c].gamma, stmt.polys,
                                                         stmt.points, stmt.index)]]
    /\ UNCHANGED <<inner, obj, pc, stmt, out>>

\* the verify call on the other transcript
OtherCall ==
    /\ pc = "calls"
    /\ calls["other"].pc = "start"
    /\ LET r == VerifyOf(obj, TranscriptOf("other"), stmt.commits, stmt.points,
                         stmt.index, stmt.evals, stmt.proof)
       IN calls' = [calls EXCEPT !["other"] =
                      [@ EXCEPT !.pc = "done", !.res = r.res,
                                !.transcript = r.transcript]]
    /\ UNCHANGED <<inner, obj, pc, stmt, out>>

NextCalls ==
    \/ Build_M1Precomp
    \/ Build_M1CyclPrecomp
    \/ StartCalls
    \/ \E c \in Callers : CallTranscribe(c)
    \/ \E c \in Callers : CallChallenge(c)
    \/ \E c \in Callers : CallFinish(c)
    \/ OtherCall

SpecCalls == InitCalls /\ [][NextCalls]_vars

\* ================================================================ claims
Honest == stmt.mutation = "none"

WithinBase == \A i \in 1..Len(stmt.polys) : Len(stmt.polys[i]) <= obj.base_size

\* C1: (as claimed) for the base and the generic-precompute variant, open
\* followed by verify on the same points (or point-set index), the same true
\* evaluations, the commitments of the polynomials and an identically
\* initialised transcript returns Ok(true), for any non-empty list of
\* polynomials with at most |powers_of_g1| coefficients each.
C1_RoundTrip ==
    (pc = "verified" /\ Honest /\ obj.kind \in {"base", "pre"}) => out = Ok(TRUE)

\* C2: (as claimed) for the coset variant, every coset index and any
\* non-empty list of polynomials of degree < base_size, open followed by
\* verify on the evaluations over that coset returns Ok(true).
C2_CosetRoundTrip ==
    (pc = "verified" /\ Honest /\ obj.kind = "cyc" /\ WithinBase) => out = Ok(TRUE)

NotPowersOfTwo ==
    /\ obj.kind = "cyc"
    /\ ~is_power_of_two(obj.base_size) \/ ~is_power_of_two(obj.num_point_sets)

\* C3: (as claimed) M1CyclPrecomp::from_inner with a base_size or a
\* num_point_sets that is not a power of two returns an error value that
\* reports the offending size, and never panics.
C3_NotPowerOfTwoIsError ==
    NotPowersOfTwo =>
        /\ IsErr(obj.res)
        /\ obj.res.err.name = "DomainConstructionFailed"
        /\ obj.res.err.size \in {obj.base_size, obj.num_point_sets}

IsDomainConstructionFailed(r) ==
    IsErr(r) /\ r.err.name = "DomainConstructionFailed"

\* C4: (as claimed) with power-of-two sizes and fewer G1 powers than
\* base_size, from_inner returns DomainConstructionFailed(base_size), and
\* every DomainConstructionFailed error of from_inner carries the requested
\* base_size.
C4_DomainErrorCarriesRequestedSize ==
    obj.kind = "cyc" =>
        /\ (/\ is_power_of_two(obj.base_size)
            /\ is_power_of_two(obj.num_point_sets)
            /\ Len(inner.powers_of_g1) < obj.base_size)
              => obj.res = Err([name |-> "DomainConstructionFailed",
                                size |-> obj.base_size])
        /\ IsDomainConstructionFailed(obj.res) => obj.res.err.size = obj.base_size

UnknownIndex ==
    /\ pc \in {"opened", "verified"}
    /\ obj.kind \in {"pre", "cyc"}
    /\ stmt.index >= NumSets(obj)

\* C5: (as claimed) open or verify of a precomputed variant with a
\* point_set_index that is no index of a precomputed point set returns an
\* error value and never panics.
C5_UnknownIndexIsError == UnknownIndex => IsErr(out)

ExceedsG2 ==
    \/ /\ obj.kind = "pre"
       /\ \E i \in 1..Len(obj.point_sets) :
              Len(obj.point_sets[i]) > Len(inner.powers_of_g2) - 1
    \/ /\ obj.kind = "cyc"
       /\ obj.num_point_sets # 0
       /\ obj.base_size \div obj.num_point_sets > Len(inner.powers_of_g2) - 1

\* C9: (as claimed) constructing a precomputed variant returns an error,
\* never a panic and never an object, whenever a point set (for the coset
\* variant: the coset size base_size / num_point_sets) exceeds
\* |powers_of_g2| - 1.
C9_OverCapacityIsError ==
    (pc = "built" /\ ExceedsG2) => IsErr(obj.res)

KnownIndex ==
    /\ pc \in {"opened", "verified"}
    /\ obj.kind \in {"pre", "cyc"}
    /\ stmt.index < NumSets(obj)

\* the generic precomputation for the one point set of the statement
GenericFor(points) == M1Precomp_from_inner(inner, <<points>>).val

\* C8: open and verify of a precomputed variant at a known index return what
\* the base open and verify return on the points of that point set, for the
\* same polynomials, evaluations, commitments, proof and transcript seed; and
\* the coset variant returns what the generic M1Precomp built from the
\* coset's points returns.
C8_PrecompEquivalence ==
    KnownIndex =>
        LET points == PointsAt(obj, stmt.index)
            t == TranscriptNew("testing")
        IN /\ pc = "opened" =>
                /\ out = NoPrecomp_open(inner, t, stmt.evals, stmt.polys, points).res
                /\ obj.kind = "cyc" =>
                     out = M1Precomp_open(GenericFor(points), t, stmt.evals,
                                          stmt.polys, 0).res
           /\ pc = "verified" =>
                /\ out = NoPrecomp_verify(inner, t, stmt.commits, points,
                                          stmt.evals, stmt.proof).res
                /\ obj.kind = "cyc" =>
                     out = M1Precomp_verify(GenericFor(points), t, stmt.commits, 0,
                                            stmt.evals, stmt.proof).res

\* a proof of a non-zero quotient accepted on a coset with offset # 1
C8_Witness ==
    /\ KnownIndex
    /\ pc = "verified"
    /\ obj.kind = "cyc"
    /\ stmt.index >= 1
    /\ Len(stmt.points) = 2
    /\ stmt.proof # 0
    /\ out = Ok(TRUE)

RECURSIVE WeightedSum(_, _, _)
WeightedSum(coeffs, bases, n) ==
    IF n = 0 THEN 0 ELSE (WeightedSum(coeffs, bases, n - 1) + coeffs[n] * bases[n]) % P

\* C10: commit(coeffs) with |coeffs| <= |powers_of_g1| returns the sum of
\* coeffs[i] * powers_of_g1[i]; with more coefficients it returns a size
\* error; M1Precomp and M1CyclPrecomp return what the inner commit returns.
C10_Commit ==
    pc = "committed" =>
        LET coeffs == stmt.polys[1]
        IN /\ Len(coeffs) <= Len(inner.powers_of_g1) =>
                out = Ok(WeightedSum(coeffs, inner.powers_of_g1, Len(coeffs)))
           /\ Len(coeffs) > Len(inner.powers_of_g1) =>
                IsErr(out) /\ out.err.name = "TooManyScalars"

\* a precomputed variant has committed to a polynomial that fills the SRS
C10_Witness ==
    /\ pc = "committed"
    /\ obj.kind = "cyc"
    /\ Len(stmt.polys[1]) = Len(inner.powers_of_g1)
    /\ Len(inner.powers_of_g1) >= 3
    /\ IsOk(out)
    /\ out.val # 0

\* the statement as open produced it is accepted
OrigAccepted ==
    VerifyOf(obj, TranscriptNew("testing"), stmt.orig.commits, stmt.orig.points,
             stmt.orig.index, stmt.orig.evals, stmt.orig.proof).res = Ok(TRUE)

\* verify has run on an accepted statement with one evaluation, one point or
\* one commitment changed
MutatedVerified ==
    /\ pc = "verified"
    /\ stmt.mutation \in {"eval", "point", "commit"}
    /\ OrigAccepted

\* the challenge verify derives for the statement
GammaOf(st) ==
    get_challenge(
        transcribe_points_and_evals(TranscriptNew("testing"),
            IF obj.kind = "base" THEN st.points ELSE PointsAt(obj, st.index),
            st.evals).transcript,
        "open gamma").gamma

\* C6 (as claimed): verify returns Ok(false) for an accepted statement with
\* any single evaluation, point or commitment changed.
C6_MutationRejected == MutatedVerified => out = Ok(FALSE)

\* C6 (amended): for such a statement verify returns Ok(true) or Ok(false),
\* never an error; and Ok(false) when the changed value is a commitment and
\* it is the first commitment or the derived gamma is not zero.
C6_MutationBoolean ==
    MutatedVerified =>
        /\ IsOk(out)
        /\ out.val \in BOOLEAN
        /\ (/\ stmt.mutation = "commit"
            /\ GammaOf(stmt) # 0 \/ stmt.commits[1] # stmt.orig.commits[1])
              => out = Ok(FALSE)

\* a changed commitment other than the first is rejected
C6_Witness ==
    /\ MutatedVerified
    /\ stmt.mutation = "commit"
    /\ Len(stmt.commits) >= 2
    /\ stmt.commits[2] # stmt.orig.commits[2]
    /\ GammaOf(stmt) # 0
    /\ out = Ok(FALSE)

\* both callers have returned
BothDone == pc = "calls" /\ \A c \in Callers : calls[c].pc = "done"

Opened == pc = "opened" /\ IsOk(out)

\* the points open worked on
OpenedPoints == IF obj.kind = "base" THEN stmt.points ELSE PointsAt(obj, stmt.index)

\* the batch polynomial f as open forms it
OpenBatch ==
    linear_combination(stmt.polys,
                       gen_powers(GammaOf(stmt), Len(inner.powers_of_g1))).val

\* quotient and remainder of the division open performs on f
OpenDivisionOf(f) ==
    CASE obj.kind = "base" ->
            poly_div_q_r(f, vanishing_polynomial(stmt.points)).val
      [] obj.kind = "pre" ->
            poly_div_q_r(f, obj.res.val.vanishing_polys[stmt.index + 1]).val
      [] obj.kind = "cyc" ->
            divide_by_vanishing_poly(f, obj.res.val.point_set_groups[stmt.index + 1]).val

OpenDivision == OpenDivisionOf(OpenBatch)

OpenQuotient == OpenDivision[1]

OpenRemainder == Trim(OpenDivision[2])

\* open returns a proof for every single changed evaluation as well
OpensWithAnyEvals ==
    \A i \in 1..Len(stmt.evals) : \A j \in 1..Len(stmt.evals[i]) :
        IsOk(OpenOf(obj, TranscriptNew("testing"),
                    [stmt.evals EXCEPT ![i][j] = (@ + 1) % P],
                    stmt.polys, stmt.points, stmt.index).res)

FullBatch ==
    linear_combination(stmt.polys, gen_powers(GammaOf(stmt), Len(stmt.polys))).val

\* C12 (as claimed): on the same points, evaluations and transcript seed,
\* open and verify leave the transcript in the same state (same messages in
\* the same order, same challenge label), and open forms f from one gamma
\* power per polynomial, so that each of the k polynomials contributes to f.
C12_SameChallengeMaterial ==
    Opened =>
        /\ OpenOf(obj, TranscriptNew("testing"), stmt.evals, stmt.polys,
                  stmt.points, stmt.index).transcript
             = VerifyOf(obj, TranscriptNew("testing"), stmt.commits, stmt.points,
                        stmt.index, stmt.evals, stmt.proof).transcript
        /\ OpenBatch = FullBatch

====
